---- MODULE Spec2Model ----
(***************************************************************************)
(* The Indian Recipe Generator (src/app.py): a Streamlit script that is   *)
(* run top to bottom once per user interaction, over a SQLite table        *)
(* saved_recipes.  Text is modelled as a sequence of one-character         *)
(* strings, a Python value that may be None as a record with a `none`      *)
(* flag, a SQL value as a record with a `null` flag.                       *)
(***************************************************************************)
EXTENDS Integers, Sequences, FiniteSets, TLC

\* ---------------------------------------------------------------- bounds

\* Longest text the vision model answers with.
MaxVisionLen == 2
\* Longest text the text model answers with.
MaxResultLen == 2
\* How many of the cuisine regions the user picks from.
MaxRegions == 2
\* How many INSERTs a behaviour performs.
MaxInserts == 3
\* The latest second the wall clock shows (the earliest is two before it).
MaxClock == 10

\* ------------------------------------------------------------ Python text

None == [none |-> TRUE, text |-> <<>>]
Str(t) == [none |-> FALSE, text |-> t]

\* Python's truth value of an optional string: None and "" are false.
Truthy(v) == ~v.none /\ v.text # <<>>

Whitespace == {" ", "\n"}

RECURSIVE LStrip(_)
LStrip(s) ==
    IF s # <<>> /\ Head(s) \in Whitespace THEN LStrip(Tail(s)) ELSE s

RECURSIVE RStrip(_)
RStrip(s) ==
    IF s # <<>> /\ s[Len(s)] \in Whitespace
    THEN RStrip(SubSeq(s, 1, Len(s) - 1))
    ELSE s

\* str.strip()
Strip(s) == RStrip(LStrip(s))

\* str.split(sep): one more piece than there are separators, "" splits to [""].
RECURSIVE Split(_, _)
Split(s, sep) ==
    IF \A i \in 1..Len(s) : s[i] # sep
    THEN <<s>>
    ELSE LET i == CHOOSE k \in 1..Len(s) :
                      s[k] = sep /\ \A j \in 1..(k - 1) : s[j] # sep
         IN  <<SubSeq(s, 1, i - 1)>> \o Split(SubSeq(s, i + 1, Len(s)), sep)

\* str.replace(ch, '')
Remove(s, ch) == SelectSeq(s, LAMBDA c : c # ch)

\* ', '.join(list)
RECURSIVE Join(_)
Join(list) ==
    IF list = <<>> THEN <<>>
    ELSE IF Len(list) = 1 THEN list[1]
    ELSE list[1] \o <<",", " ">> \o Join(Tail(list))

\* list[:2]
FirstTwo(list) == SubSeq(list, 1, IF Len(list) < 2 THEN Len(list) ELSE 2)

RECURSIVE TextsUpTo(_, _)
TextsUpTo(alphabet, n) ==
    IF n = 0 THEN {<<>>}
    ELSE LET shorter == TextsUpTo(alphabet, n - 1)
         IN  shorter \cup {Append(t, c) : t \in shorter, c \in alphabet}

\* ----------------------------------------------------------- the store

VARIABLES
    rows,             \* the rows of table saved_recipes
    sqlite_sequence,  \* the largest id AUTOINCREMENT has handed out
    recipes,          \* what the listing query of view_saved_recipes fetched
    recipe,           \* what the query of view_recipe_details fetched
    assigned,         \* history: the ids the store assigned, in insertion order
    deleted,          \* history: the ids whose row a delete_recipe removed
    inserted,         \* history: for each live id, the values bound at its INSERT
    storage_error     \* whether a statement of the last run raised a sqlite3 error

VARIABLES
    choice,                  \* the sidebar's selection
    uploaded_file,           \* the file held by st.file_uploader
    region,                  \* the "Select Region/Cuisine" selection
    identified_ingredients,  \* the list the last run identified
    result,                  \* the recipe text the last run rendered
    video_link,              \* the link the last run found
    buttons,                 \* the buttons the last run rendered
    messages,                \* the messages the last run showed
    exception,               \* the exception that ended the last run, or "none"
    env,                     \* what the external services answered in the last run
    event                    \* the interaction (or call) that caused the last run

storeVars == <<rows, sqlite_sequence, recipes, recipe, assigned, deleted, inserted, storage_error>>
widgetVars == <<choice, uploaded_file, region>>
pageVars == <<identified_ingredients, result, video_link, buttons, env>>
vars == <<storeVars, widgetVars, pageVars, messages, exception, event>>

SqlNull == [null |-> TRUE, text |-> <<>>]
SqlText(t) == [null |-> FALSE, text |-> t]

\* A binding that stores the text of the value, so None as the empty TEXT.
ToSqlTextOnly(v) == SqlText(v.text)

\* sqlite3 binds None as NULL and a str as TEXT.
ToSql(v) == IF v.none THEN SqlNull ELSE SqlText(v.text)

\* sqlite3 reads NULL as None and TEXT as a str.
FromSql(c) == IF c.null THEN None ELSE Str(c.text)

Digits == <<"0", "1", "2", "3", "4", "5", "6", "7", "8", "9">>

\* The seconds the wall clock may show when a row is saved.
Clock == (MaxClock - 2)..MaxClock

\* datetime.now().strftime(...): every field is zero-padded to a fixed width.  All
\* the clock values of Clock agree on the fields before the seconds.
Strftime(t) == <<Digits[(t \div 10) + 1], Digits[(t % 10) + 1]>>

Code(c) == CHOOSE i \in 1..Len(Digits) : Digits[i] = c

\* SQLite's BINARY collation of two TEXT values: bytewise, a proper prefix first.
RECURSIVE TextLess(_, _)
TextLess(a, b) ==
    IF b = <<>> THEN FALSE
    ELSE IF a = <<>> THEN TRUE
    ELSE IF Head(a) # Head(b) THEN Code(Head(a)) < Code(Head(b))
    ELSE TextLess(Tail(a), Tail(b))

MaxOf(S) == IF S = {} THEN 0 ELSE CHOOSE m \in S : \A x \in S : x <= m

Ids(rs) == {r.id : r \in rs}

\* The plain INTEGER PRIMARY KEY rule: one more than the largest id in the table.
NextRowidWithoutAutoincrement(rs, seq) == MaxOf(Ids(rs)) + 1

\* INTEGER PRIMARY KEY AUTOINCREMENT: one more than the largest id ever handed out.
NextRowid(rs, seq) == MaxOf(Ids(rs) \cup {seq}) + 1

\* The row the INSERT of generate_recipe adds for the bound values v.
NewRow(id, v, now) ==
    [id |-> id,
     recipe_name |-> ToSql(Str(v.recipe_name_en)),
     recipe_name_telugu |-> ToSql(Str(v.recipe_name_te)),
     region |-> ToSql(Str(<<v.region>>)),
     ingredients |-> ToSql(Str(v.ingredients_text)),
     instructions |-> ToSql(Str(v.result)),
     video_link |-> ToSql(v.video_link),
     created_date |-> ToSql(Str(Strftime(now)))]

\* DELETE FROM saved_recipes WHERE id = ?
DeleteWhereId(rs, id) == {r \in rs : r.id # id}

NoRecipe ==
    [found |-> FALSE, recipe_name |-> None, recipe_name_telugu |-> None,
     instructions |-> None, video_link |-> None]

\* SELECT recipe_name, recipe_name_telugu, instructions, video_link ... WHERE id = ?
\* and fetchone(): None when no row matches.
SelectById(rs, id) ==
    IF id \in Ids(rs)
    THEN LET r == CHOOSE x \in rs : x.id = id
         IN  [found |-> TRUE,
              recipe_name |-> FromSql(r.recipe_name),
              recipe_name_telugu |-> FromSql(r.recipe_name_telugu),
              instructions |-> FromSql(r.instructions),
              video_link |-> FromSql(r.video_link)]
    ELSE NoRecipe

\* One fetched tuple of the listing query.
Summary(r) ==
    [id |-> r.id,
     recipe_name |-> FromSql(r.recipe_name),
     recipe_name_telugu |-> FromSql(r.recipe_name_telugu),
     region |-> FromSql(r.region),
     ingredients |-> FromSql(r.ingredients),
     created_date |-> FromSql(r.created_date)]

Orderings(rs) ==
    {s \in [1..Cardinality(rs) -> rs] : \A i, j \in DOMAIN s : i # j => s[i] # s[j]}

OrderByCreatedDateAsc(rs) ==
    {s \in Orderings(rs) :
        \A i, j \in DOMAIN s :
            i < j => ~TextLess(s[j].created_date.text, s[i].created_date.text)}

\* ORDER BY created_date DESC: the orders SQLite may return; rows with equal
\* created_date come in either order.
OrderByCreatedDateDesc(rs) ==
    {s \in Orderings(rs) :
        \A i, j \in DOMAIN s :
            i < j => ~TextLess(s[i].created_date.text, s[j].created_date.text)}

\* SELECT id, recipe_name, ... ORDER BY created_date DESC and fetchall().
SelectAll(rs) == {[i \in DOMAIN s |-> Summary(s[i])] : s \in OrderByCreatedDateDesc(rs)}

\* History kept for the bound values of a row: what the INSERT was given.
Bound(v, now) ==
    [recipe_name |-> Str(v.recipe_name_en),
     recipe_name_telugu |-> Str(v.recipe_name_te),
     region |-> Str(<<v.region>>),
     ingredients |-> Str(v.ingredients_text),
     instructions |-> Str(v.result),
     video_link |-> v.video_link,
     created_date |-> Str(Strftime(now))]

\* cursor.execute(INSERT ...) and conn.commit() of generate_recipe.  A storage
\* failure raises before anything is committed, and the connection of the run is
\* dropped with the run.
InsertRecipe(v, now, fault) ==
    /\ Len(assigned) < MaxInserts
    /\ IF fault
       THEN UNCHANGED <<rows, sqlite_sequence, assigned, inserted>>
       ELSE LET id == NextRowid(rows, sqlite_sequence)
            IN  /\ rows' = rows \cup {NewRow(id, v, now)}
                /\ sqlite_sequence' = id
                /\ assigned' = Append(assigned, id)
                /\ inserted' = [i \in DOMAIN inserted \cup {id} |->
                                   IF i = id THEN Bound(v, now) ELSE inserted[i]]
    /\ storage_error' = fault
    /\ UNCHANGED deleted

\* cursor.execute(DELETE ...) and conn.commit() of delete_recipe.
DeleteRecipe(id, fault) ==
    /\ IF fault
       THEN UNCHANGED <<rows, deleted, inserted>>
       ELSE /\ rows' = DeleteWhereId(rows, id)
            /\ deleted' = deleted \cup (Ids(rows) \cap {id})
            /\ inserted' = [i \in DOMAIN inserted \ {id} |-> inserted[i]]
    /\ storage_error' = fault
    /\ UNCHANGED <<sqlite_sequence, assigned>>

StoreUntouched ==
    /\ storage_error' = FALSE
    /\ UNCHANGED <<rows, sqlite_sequence, assigned, deleted, inserted>>
NoQueries == recipes' = <<>> /\ recipe' = NoRecipe

\* ------------------------------------------------- the external services

NotCalled == [kind |-> "not_called", text |-> <<>>]
Failed == [kind |-> "error", text |-> <<>>]
Answer(t) == [kind |-> "text", text |-> t]

\* What vision_model.generate_content and response.text end in: an exception, or a
\* text.
VisionOutcomes == {Failed} \cup {Answer(t) : t \in TextsUpTo({"a", ",", " "}, MaxVisionLen)}

\* What model.generate_content and response.text end in.
GeneratorOutcomes == {Failed} \cup {Answer(t) : t \in TextsUpTo({"#", "a", "\n"}, MaxResultLen)}

\* What request.execute() ends in: a response with one item or with none, an
\* HttpError, or another exception (no route to the server, a timeout).
SearchOutcomes ==
    {[kind |-> "items", text |-> <<"x">>], [kind |-> "no_items", text |-> <<>>],
     [kind |-> "HttpError", text |-> <<>>], [kind |-> "ServerNotFoundError", text |-> <<>>]}

NoCalls == [vision |-> NotCalled, generate |-> NotCalled, search |-> NotCalled]

\* ------------------------------------------------------ IndianRecipeSystem

cuisine_regions ==
    <<"Any", "Andhra", "Telangana", "South Indian", "North Indian", "Bengali",
      "Gujarati", "Maharashtrian", "Rajasthani", "Punjab">>

Regions == {cuisine_regions[i] : i \in 1..MaxRegions}

\* The try block of identify_ingredients_from_image for an image PIL can open.
identify_ingredients_from_image(v) ==
    IF v.kind = "error"
    THEN <<>>
    ELSE LET items == Split(Strip(v.text), ",")
         IN  [i \in DOMAIN items |-> Strip(items[i])]

WatchUrl(video_id) == <<"https://www.youtube.com/watch?v=">> \o video_id

\* search_telugu_recipe_video for the outcomes it returns from.
search_telugu_recipe_video(s) ==
    IF s.kind = "items" THEN Str(WatchUrl(s.text)) ELSE None

\* The except clause of search_telugu_recipe_video: HttpError only.
SearchCaught(s) == s.kind = "HttpError"
SearchRaises(s) == s.kind \notin {"items", "no_items"} /\ ~SearchCaught(s)

safe_generate_content(g) == IF g.kind = "error" THEN None ELSE Str(g.text)

recipe_lines(res) == FirstTwo(Split(res, "\n"))

\* recipe_lines[k].replace('#', '').strip()
recipe_name(res, k) == Strip(Remove(recipe_lines(res)[k], "#"))

\* The values the INSERT of generate_recipe binds.
SaveValues(ingredients, reg, res, link) ==
    [recipe_name_en |-> recipe_name(res, 1),
     recipe_name_te |-> recipe_name(res, 2),
     region |-> reg,
     ingredients_text |-> Join(ingredients),
     result |-> res,
     video_link |-> link]

\* ------------------------------------------------------------ the script

NoFile == "none"
\* Files the uploader accepts by their extension: two photos, and one whose bytes
\* are no image.
Files == {"photo1.jpg", "photo2.png", "corrupt.jpg"}
Readable(file) == file \in {"photo1.jpg", "photo2.png"}

NoClick == [label |-> "", id |-> 0]
GenerateButton == [label |-> "Generate Recipe", id |-> 0]
SaveButton == [label |-> "Save Recipe", id |-> 0]
ViewButton(id) == [label |-> "View", id |-> id]
DeleteButton(id) == [label |-> "Delete", id |-> id]

\* st.button: true in the run caused by a click on this very button.
Button(b, clicked) == clicked = b

IdentifyError == "Error identifying ingredients"
Identified == "Identified ingredients:"
NoneIdentified == "No ingredients identified. Please try another image with clearer food items."
UploadFirst == "Please upload a photo of your ingredients first"
GenerateError == "Error generating content"
SearchError == "Error searching YouTube"
VideoSection == "Recipe Video"
SavedOk == "Recipe saved successfully!"
SaveError == "Error saving recipe"
Deleted == "Recipe deleted!"
NotFound == "Recipe not found!"
Details == "Recipe details"
NoSaved == "No saved recipes yet. Upload ingredients and generate recipes to get started!"
SavedCount == "You have saved recipes so far!"

\* What a run leaves on the page.
Show(ingredients, res, link, btns, msgs, exc, e) ==
    /\ identified_ingredients' = ingredients
    /\ result' = res
    /\ video_link' = link
    /\ buttons' = btns
    /\ messages' = msgs
    /\ exception' = exc
    /\ env' = e

\* A second st.button("Generate Recipe") in one run has the identity of the first:
\* Streamlit raises DuplicateWidgetID; a build that lets it pass reports its click.
SecondButtonOutcomes == {"DuplicateWidgetID", "value"}

\* generate_recipe from "if st.button('Save Recipe')" on: the recipe and the video
\* have been rendered.
SaveStep(clicked, ingredients, res, link, msgs, e) ==
    IF Button(SaveButton, clicked)
    THEN \E now \in Clock, fault \in BOOLEAN :
            /\ InsertRecipe(SaveValues(ingredients, region', res, link), now, fault)
            /\ Show(ingredients, Str(res), link, {GenerateButton, SaveButton},
                    msgs \cup {IF fault THEN SaveError ELSE SavedOk}, "none", e)
    ELSE /\ StoreUntouched
         /\ Show(ingredients, Str(res), link, {GenerateButton, SaveButton}, msgs, "none", e)

\* generate_recipe from the video search on: the recipe text res has two lines.
VideoStep(clicked, ingredients, res, msgs, e) ==
    \E s \in SearchOutcomes :
        LET e2 == [e EXCEPT !.search = s]
        IN  IF SearchRaises(s)
            THEN /\ StoreUntouched
                 /\ Show(ingredients, Str(res), None, {GenerateButton}, msgs, s.kind, e2)
            ELSE LET link == search_telugu_recipe_video(s)
                     msgs2 == msgs \cup (IF SearchCaught(s) THEN {SearchError} ELSE {})
                                   \cup (IF Truthy(link) THEN {VideoSection} ELSE {})
                 IN  SaveStep(clicked, ingredients, res, link, msgs2, e2)

\* generate_recipe from the "Generate Recipe" button on.
GenerateStep(clicked, ingredients, msgs, e) ==
    IF Button(GenerateButton, clicked) /\ ingredients # <<>>
    THEN \E g \in GeneratorOutcomes :
            LET res == safe_generate_content(g)
                e2 == [e EXCEPT !.generate = g]
            IN  IF ~Truthy(res)
                THEN /\ StoreUntouched
                     /\ Show(ingredients, None, None, {GenerateButton},
                             msgs \cup (IF res.none THEN {GenerateError} ELSE {}), "none", e2)
                ELSE IF Len(recipe_lines(res.text)) < 2
                THEN /\ StoreUntouched
                     /\ Show(ingredients, res, None, {GenerateButton}, msgs, "IndexError", e2)
                ELSE VideoStep(clicked, ingredients, res.text, msgs, e2)
    ELSE IF ingredients = <<>>
    THEN \E second \in SecondButtonOutcomes :
            /\ StoreUntouched
            /\ IF second = "DuplicateWidgetID"
               THEN Show(ingredients, None, None, {GenerateButton}, msgs, second, e)
               ELSE Show(ingredients, None, None, {GenerateButton},
                         msgs \cup (IF Button(GenerateButton, clicked) THEN {UploadFirst} ELSE {}),
                         "none", e)
    ELSE /\ StoreUntouched
         /\ Show(ingredients, None, None, {GenerateButton}, msgs, "none", e)

\* generate_recipe: one run of the Generate page.
generate_recipe(clicked) ==
    /\ NoQueries
    /\ IF uploaded_file' = NoFile
       THEN GenerateStep(clicked, <<>>, {}, NoCalls)
       ELSE IF ~Readable(uploaded_file')
       THEN /\ StoreUntouched
            /\ Show(<<>>, None, None, {}, {}, "UnidentifiedImageError", NoCalls)
       ELSE \E v \in VisionOutcomes :
               LET ingredients == identify_ingredients_from_image(v)
                   msgs == (IF v.kind = "error" THEN {IdentifyError} ELSE {})
                           \cup {IF ingredients # <<>> THEN Identified ELSE NoneIdentified}
               IN  GenerateStep(clicked, ingredients, msgs, [NoCalls EXCEPT !.vision = v])

ListedIds(list) == {list[i].id : i \in DOMAIN list}
ListedButtons(list) ==
    {ViewButton(id) : id \in ListedIds(list)} \cup {DeleteButton(id) : id \in ListedIds(list)}

\* The buttons rendered when the loop of view_saved_recipes has reached row id.
ButtonsUpTo(list, id) ==
    LET k == CHOOSE i \in DOMAIN list : list[i].id = id
    IN  ListedButtons(SubSeq(list, 1, k))

\* view_recipe_details: what it renders for the fetched row.
DetailMessages(r) ==
    IF r.found
    THEN {Details} \cup (IF Truthy(r.video_link) THEN {VideoSection} ELSE {})
    ELSE {NotFound}

\* view_recipe_details, called while the buttons btns are on the page.
view_recipe_details(recipe_id, btns) ==
    /\ StoreUntouched
    /\ recipe' = SelectById(rows, recipe_id)
    /\ Show(<<>>, None, None, btns, DetailMessages(recipe'), "none", NoCalls)

\* delete_recipe, called while the buttons btns are on the page: the messages it
\* shows when the statement succeeds, the exception that leaves it when not.
delete_recipe(recipe_id, btns) ==
    \E fault \in BOOLEAN :
        /\ DeleteRecipe(recipe_id, fault)
        /\ Show(<<>>, None, None, btns, IF fault THEN {} ELSE {Deleted},
                IF fault THEN "sqlite3.OperationalError" ELSE "none", NoCalls)

\* The page view_saved_recipes renders for the fetched list when no button of it
\* was clicked.
Listing(list) ==
    /\ recipes' = list
    /\ recipe' = NoRecipe
    /\ Show(<<>>, None, None, ListedButtons(list),
            IF list = <<>> THEN {NoSaved} ELSE {}, "none", NoCalls)

\* view_saved_recipes: one run of the Saved page.
view_saved_recipes(clicked) ==
    \E list \in SelectAll(rows) :
        IF clicked.label = "Delete" /\ clicked.id \in ListedIds(list)
        THEN \E fault \in BOOLEAN :
                /\ DeleteRecipe(clicked.id, fault)
                /\ IF fault
                   THEN /\ recipes' = list
                        /\ recipe' = NoRecipe
                        /\ Show(<<>>, None, None, ButtonsUpTo(list, clicked.id), {},
                                "sqlite3.OperationalError", NoCalls)
                   ELSE \* st.rerun(): the run is dropped and the script runs again
                        \E again \in SelectAll(rows') : Listing(again)
        ELSE IF clicked.label = "View" /\ clicked.id \in ListedIds(list)
        THEN recipes' = list /\ view_recipe_details(clicked.id, ListedButtons(list))
        ELSE StoreUntouched /\ Listing(list)

\* The Home page of main: the count of saved recipes.
Home ==
    /\ StoreUntouched
    /\ NoQueries
    /\ Show(<<>>, None, None, {},
            IF Cardinality(rows) > 0 THEN {SavedCount} ELSE {}, "none", NoCalls)

\* main: one run of the script, for the click (if any) that caused it.
main(clicked) ==
    IF choice' = "Generate Recipe" THEN generate_recipe(clicked)
    ELSE IF choice' = "Saved Recipes" THEN view_saved_recipes(clicked)
    ELSE Home

Pages == {"Home", "Generate Recipe", "Saved Recipes"}

Event(kind, name, id) == [kind |-> kind, name |-> name, id |-> id]

\* ------------------------------------------------ the user's interactions

\* The sidebar selectbox: the widgets of the page left behind are dropped.
Navigate(p) ==
    /\ p # choice
    /\ event' = Event("navigate", p, 0)
    /\ choice' = p
    /\ uploaded_file' = NoFile
    /\ region' = cuisine_regions[1]
    /\ main(NoClick)

\* st.file_uploader: the user uploads a file.
Upload(file) ==
    /\ choice = "Generate Recipe"
    /\ event' = Event("upload", file, 0)
    /\ uploaded_file' = file
    /\ UNCHANGED <<choice, region>>
    /\ main(NoClick)

\* st.file_uploader: the user removes the file.
ClearUpload ==
    /\ choice = "Generate Recipe"
    /\ uploaded_file # NoFile
    /\ event' = Event("clear", NoFile, 0)
    /\ uploaded_file' = NoFile
    /\ UNCHANGED <<choice, region>>
    /\ main(NoClick)

\* st.selectbox("Select Region/Cuisine"), rendered unless the run ended before it.
SelectRegion(r) ==
    /\ choice = "Generate Recipe"
    /\ exception # "UnidentifiedImageError"
    /\ r # region
    /\ event' = Event("select", r, 0)
    /\ region' = r
    /\ UNCHANGED <<choice, uploaded_file>>
    /\ main(NoClick)

\* The user clicks a button that is on the page.
Click(b) ==
    /\ b \in buttons
    /\ event' = Event("click", b.label, b.id)
    /\ UNCHANGED <<choice, uploaded_file, region>>
    /\ main(b)

Init ==
    /\ rows = {}
    /\ sqlite_sequence = 0
    /\ recipes = <<>>
    /\ recipe = NoRecipe
    /\ assigned = <<>>
    /\ deleted = {}
    /\ inserted = <<>>
    /\ storage_error = FALSE
    /\ choice = "Home"
    /\ uploaded_file = NoFile
    /\ region = cuisine_regions[1]
    /\ identified_ingredients = <<>>
    /\ result = None
    /\ video_link = None
    /\ buttons = {}
    /\ messages = {}
    /\ exception = "none"
    /\ env = NoCalls
    /\ event = Event("start", "", 0)

Next ==
    \/ \E p \in Pages : Navigate(p)
    \/ \E file \in Files : Upload(file)
    \/ ClearUpload
    \/ \E r \in Regions : SelectRegion(r)
    \/ \E b \in buttons : Click(b)

\* The application as its user drives it.
Spec == Init /\ [][Next]_vars

\* -------------------------------------------- the store's operations, called

\* Values the Save step binds: a recipe with a video link, and one without whose
\* second title line is empty.
SampleSaves ==
    {SaveValues(<<<<"a">>>>, cuisine_regions[2], <<"#", "a", "\n", "a">>, Str(WatchUrl(<<"x">>))),
     SaveValues(<<<<"a">>, <<"a">>>>, cuisine_regions[1], <<"a", "\n">>, None)}

\* The ids the operations are called with: every id the store can assign, and one
\* it never does.
CallIds == 1..(MaxInserts + 1)

\* The try block of the Save step of generate_recipe.
CallSave ==
    \E v \in SampleSaves, now \in Clock, fault \in BOOLEAN :
        /\ event' = Event("call", "save", 0)
        /\ InsertRecipe(v, now, fault)
        /\ NoQueries
        /\ Show(<<>>, None, None, {}, {IF fault THEN SaveError ELSE SavedOk}, "none", NoCalls)
        /\ UNCHANGED widgetVars

CallViewSavedRecipes ==
    /\ event' = Event("call", "view_saved_recipes", 0)
    /\ view_saved_recipes(NoClick)
    /\ UNCHANGED widgetVars

CallViewRecipeDetails ==
    \E id \in CallIds :
        /\ event' = Event("call", "view_recipe_details", id)
        /\ recipes' = <<>>
        /\ view_recipe_details(id, {})
        /\ UNCHANGED widgetVars

CallDeleteRecipe ==
    \E id \in CallIds :
        /\ event' = Event("call", "delete_recipe", id)
        /\ NoQueries
        /\ delete_recipe(id, {})
        /\ UNCHANGED widgetVars

StoreNext ==
    \/ CallSave
    \/ CallViewSavedRecipes
    \/ CallViewRecipeDetails
    \/ CallDeleteRecipe

\* The operations of IndianRecipeSystem on the store, called in any order.
StoreSpec == Init /\ [][StoreNext]_vars

\* ---------------------------------------------------------------- claims

Called(name) == event.kind = "call" /\ event.name = name

\* The seconds a created_date text stands for.
Seconds(text) == 10 * (Code(text[1]) - 1) + (Code(text[2]) - 1)

\* The error messages the application shows.
ErrorMessages == {IdentifyError, GenerateError, SearchError, SaveError}

\* C1: a click on the "Save Recipe" button that was offered with a found video link
\* adds exactly one row to saved_recipes, and the new row's video_link is the found
\* URL; the click is handled by a fresh run in which only the clicked button reports
\* a click.
C1_SaveClickInsertsOneRow ==
    [][(event'.kind = "click" /\ event'.name = "Save Recipe" /\ Truthy(video_link))
          => /\ Cardinality(rows') = Cardinality(rows) + 1
             /\ \E r \in rows' \ rows : r.video_link = ToSql(video_link)]_vars

\* C2: a recipe that was inserted and not deleted is fetched by its id with the
\* inserted values, whatever was inserted and deleted besides it, and so is what
\* view_recipe_details fetched; an absent video_link reads back absent, not as the
\* empty string.
Fetched(id) ==
    [found |-> TRUE,
     recipe_name |-> inserted[id].recipe_name,
     recipe_name_telugu |-> inserted[id].recipe_name_telugu,
     instructions |-> inserted[id].instructions,
     video_link |-> inserted[id].video_link]

C2_FetchReturnsInserted ==
    /\ \A id \in DOMAIN inserted :
          /\ SelectById(rows, id) = Fetched(id)
          /\ inserted[id].video_link = None
                => /\ SelectById(rows, id).video_link = None
                   /\ SelectById(rows, id).video_link # Str(<<>>)
    /\ (Called("view_recipe_details") /\ event.id \in DOMAIN inserted)
          => recipe = Fetched(event.id)

\* C2's case: view_recipe_details fetched a recipe saved without a video link, after
\* a later recipe was saved and a row was deleted.
C2_Witness ==
    /\ Called("view_recipe_details")
    /\ event.id \in DOMAIN inserted
    /\ inserted[event.id].video_link = None
    /\ recipe.found /\ recipe.video_link = None
    /\ deleted # {}
    /\ \E other \in DOMAIN inserted : other > event.id

\* C3: once delete_recipe removed the row of an id, view_recipe_details of that id
\* takes the not-found path; delete_recipe leaves all other rows as they are; and
\* delete_recipe of an id without a row leaves the store unchanged and raises no
\* error.
C3_DeleteThenNotFound ==
    [][/\ (event'.kind = "call" /\ event'.name = "view_recipe_details"
              /\ event'.id \in deleted)
          => NotFound \in messages' /\ ~recipe'.found
       /\ (event'.kind = "call" /\ event'.name = "delete_recipe")
          => /\ rows' \subseteq rows
             /\ \A r \in rows : r.id # event'.id => r \in rows'
       /\ (event'.kind = "call" /\ event'.name = "delete_recipe"
              /\ event'.id \notin Ids(rows))
          => rows' = rows /\ exception' = "none"]_vars

DistinctDates(rs) == \A r1, r2 \in rs : r1.created_date = r2.created_date => r1 = r2

\* C4: when the rows' created_date values are pairwise distinct, the listing query
\* of view_saved_recipes returns every row of the store exactly once, in strictly
\* descending order of created_date, the newest first.
C4_ListingNewestFirst ==
    (Called("view_saved_recipes") /\ DistinctDates(rows))
        => /\ Len(recipes) = Cardinality(rows)
           /\ \A r \in rows : \E i \in DOMAIN recipes : recipes[i] = Summary(r)
           /\ \A i, j \in DOMAIN recipes :
                 i < j => /\ recipes[i].id # recipes[j].id
                          /\ TextLess(recipes[j].created_date.text,
                                      recipes[i].created_date.text)
                          /\ Seconds(recipes[j].created_date.text)
                                < Seconds(recipes[i].created_date.text)

\* C4's case: a listing of at least two rows with distinct dates, taken after a
\* delete, in which a row saved later (a larger id) is listed after an earlier one.
C4_Witness ==
    /\ Called("view_saved_recipes")
    /\ DistinctDates(rows)
    /\ Len(recipes) >= 2
    /\ deleted # {}
    /\ \E i, j \in DOMAIN recipes : i < j /\ recipes[i].id < recipes[j].id

\* C5: for every uploaded file the Generate page handles, ingredient identification
\* ends with a non-empty list, or with an empty list and an error message, and never
\* with an exception that ends the page run.
C5_IdentificationNeverUnhandled ==
    (choice = "Generate Recipe" /\ uploaded_file # NoFile)
        => /\ exception # "UnidentifiedImageError"
           /\ \/ identified_ingredients # <<>>
              \/ identified_ingredients = <<>> /\ IdentifyError \in messages

\* C6: when the vision call failed or answered with no usable text (empty or
\* whitespace only), the identified-ingredient list is empty; and a click on
\* "Generate Recipe" with an empty list shows the upload-first warning and calls no
\* text generation.
C6_NoUsableTextNoGeneration ==
    /\ (env.vision.kind = "error"
           \/ (env.vision.kind = "text" /\ Strip(env.vision.text) = <<>>))
          => identified_ingredients = <<>>
    /\ (event.kind = "click" /\ event.name = "Generate Recipe"
           /\ identified_ingredients = <<>>)
          => UploadFirst \in messages /\ env.generate = NotCalled

\* C7: a search that was issued ends with the watch URL of the first item, or with
\* no link (no items, or any failure, which is reported and goes no further); with no
\* link the page has no video section.
C7_SearchUrlOrAbsent ==
    env.search # NotCalled
        => /\ exception = "none"
           /\ \/ /\ env.search.kind = "items"
                 /\ video_link = Str(WatchUrl(env.search.text))
              \/ /\ env.search.kind # "items"
                 /\ video_link = None
                 /\ VideoSection \notin messages
                 /\ env.search.kind # "no_items" => SearchError \in messages

\* C8: a storage failure in the Save insert or in delete_recipe is caught where it
\* happens: the run ends without an exception, an error message and no success
\* message is shown, and the rows are unchanged.
C8_StorageFailureCaught ==
    [][storage_error'
          => /\ exception' = "none"
             /\ messages' \cap ErrorMessages # {}
             /\ SavedOk \notin messages' /\ Deleted \notin messages'
             /\ rows' = rows]_vars

\* C9: an upload on the Generate page, in whatever state, has the vision model
\* called on the new file, leaves no recipe text and no Save button on the page, and
\* inserts no row.
C9_UploadGoesToImageUploaded ==
    [][event'.kind = "upload"
          => /\ env'.vision # NotCalled
             /\ result' = None
             /\ SaveButton \notin buttons'
             /\ rows' = rows]_vars

\* C10: the ids the store assigns increase strictly in insertion order, also after
\* the row with the largest id was deleted, so none is assigned twice; an id
\* identifies at most one row, the id of a deleted row identifies none, and a row
\* keeps the values and the created_date it was inserted with.
C10_IdsIncreaseRowsKeepValues ==
    /\ \A i, j \in DOMAIN assigned : i < j => assigned[i] < assigned[j]
    /\ \A r1, r2 \in rows : r1.id = r2.id => r1 = r2
    /\ deleted \cap Ids(rows) = {}
    /\ \A r \in rows :
          /\ r.id \in DOMAIN inserted
          /\ [c \in DOMAIN inserted[r.id] |-> FromSql(r[c])] = inserted[r.id]

\* C10's case: a recipe was just saved after the row with the largest id so far had
\* been deleted.
C10_Witness ==
    /\ Called("save")
    /\ ~storage_error
    /\ Len(assigned) >= 2
    /\ assigned[Len(assigned) - 1] \in deleted
    /\ assigned[Len(assigned)] \in Ids(rows)

====
